---- MODULE Spec2Model ----
(***************************************************************************)
(* ESC/POS image snippets: image-ports/columnFormat.py and                 *)
(* image-ports/rasterFormat.py.                                            *)
(*                                                                         *)
(* Each script is a straight-line program: load an image, turn it into a   *)
(* 1-bit bitmap, build a header with _int_low_high and write the command   *)
(* bytes to stdout.  The model follows one run of either script step by    *)
(* step (Spec, SpecWide, FairSpec) and calls _int_low_high directly        *)
(* (SpecEnc).                                                              *)
(*                                                                         *)
(* Python integers are unbounded.  A number handed to _int_low_high is     *)
(* kept as two limbs [hi, lo] standing for hi * Limb + lo with             *)
(* 0 <= lo < Limb (hi is negative for a negative number), so that values   *)
(* around 2^32 and 2^39 can be compared, divided and reduced exactly.      *)
(***************************************************************************)
EXTENDS Integers, Sequences, FiniteSets, TLC

VARIABLES
    script,      \* which script runs: "column" or "raster"
    hdh,         \* high_density_horizontal
    hdv,         \* high_density_vertical
    file,        \* the picture stored in the file named on the command line
    im,          \* the script's variable im
    left,        \* _to_column_format: left
    blobs,       \* _to_column_format: blobs
    header,      \* the script's variable header
    idx,         \* number of blobs the "for blob in blobs" loop has written
    out,         \* the bytes written to fp (stdout), in order
    err,         \* the exception that ended the run, "none" while there is none
    pc,          \* position of the run
    inp_number,  \* argument of a direct call of _int_low_high
    out_bytes,   \* argument of a direct call of _int_low_high
    ret          \* outcome of that call

vars == <<script, hdh, hdv, file, im, left, blobs, header, idx, out, err, pc,
          inp_number, out_bytes, ret>>

-----------------------------------------------------------------------------
(* Unbounded integers as two limbs *)

Limb == 16384 * 16384

Big(n) == [hi |-> n \div Limb, lo |-> n % Limb]

BigLeq(a, b) == a.hi < b.hi \/ (a.hi = b.hi /\ a.lo <= b.lo)

BigLess(a, b) == BigLeq(a, b) /\ a # b

\* inp_number % 256 (Python: the result is in 0..255, also for a negative number)
BigMod256(a) == a.lo % 256

\* inp_number // 256 (Python: floor division)
BigDiv256(a) ==
    [hi |-> a.hi \div 256, lo |-> (a.hi % 256) * (Limb \div 256) + a.lo \div 256]

RECURSIVE Pow2(_)
Pow2(k) == IF k = 0 THEN 1 ELSE 2 * Pow2(k - 1)

\* a << r for 0 <= r < 28, 28 being the number of bits of a limb
ShiftBits(a, r) ==
    [hi |-> a.hi * Pow2(r) + a.lo \div Pow2(28 - r),
     lo |-> (a.lo % Pow2(28 - r)) * Pow2(r)]

\* a << k for 0 <= k < 56 and a result below 2^56
BigShiftLeft(a, k) ==
    IF k >= 28 THEN ShiftBits([hi |-> a.lo, lo |-> 0], k - 28) ELSE ShiftBits(a, k)

\* 2^k as an unbounded integer
BigPow2(k) == BigShiftLeft(Big(1), k)

BigSucc(a) == IF a.lo = Limb - 1 THEN [hi |-> a.hi + 1, lo |-> 0]
              ELSE [hi |-> a.hi, lo |-> a.lo + 1]

BigPred(a) == IF a.lo = 0 THEN [hi |-> a.hi - 1, lo |-> Limb - 1]
              ELSE [hi |-> a.hi, lo |-> a.lo - 1]

\* The unsigned integer a byte string stands for, least significant byte first.
RECURSIVE DecodeLE(_)
DecodeLE(s) ==
    IF s = <<>> THEN Big(0)
    ELSE LET r == DecodeLE(Tail(s))
         IN  [hi |-> r.hi * 256 + r.lo \div (Limb \div 256),
              lo |-> (r.lo % (Limb \div 256)) * 256 + Head(s)]

-----------------------------------------------------------------------------
(* _int_low_high *)

Raised(e) == [exc |-> e, bytes |-> <<>>]
Returned(b) == [exc |-> "none", bytes |-> b]

\* Mutant: the bytes come out most significant first.
RECURSIVE HighLowLoop(_, _, _)
HighLowLoop(n, count, outp) ==
    IF count = 0 THEN outp
    ELSE HighLowLoop(BigDiv256(n), count - 1, <<BigMod256(n)>> \o outp)

\* The loop "for _ in range(0, out_bytes): outp += int2byte(n % 256); n = n // 256"
RECURSIVE LowHighLoop(_, _, _)
LowHighLoop(n, count, outp) ==
    IF count = 0 THEN outp
    ELSE LowHighLoop(BigDiv256(n), count - 1, Append(outp, BigMod256(n)))

\* max_input = (256 << (out_bytes * 8) - 1): Python reads it as
\* 256 << ((out_bytes * 8) - 1), which is 2^(8 * out_bytes + 7).
MaxInput(k) == BigShiftLeft(Big(256), (k * 8) - 1)

\* Mutant: the byte count is checked against 1..5 instead of 1..4.
IntLowHighWideCount(n, k) ==
    IF (k * 8) - 1 < 0 THEN Raised("ValueError")
    ELSE IF ~(1 <= k /\ k <= 5) THEN Raised("ValueError")
    ELSE IF ~(BigLeq(Big(0), n) /\ BigLeq(n, MaxInput(k))) THEN Raised("ValueError")
    ELSE Returned(LowHighLoop(n, k, <<>>))

\* _int_low_high(inp_number, out_bytes).  The shift on the first line raises
\* ValueError (negative shift count) when out_bytes <= 0, before either check.
IntLowHigh(n, k) ==
    IF (k * 8) - 1 < 0 THEN Raised("ValueError")
    ELSE IF ~(1 <= k /\ k <= 4) THEN Raised("ValueError")
    ELSE IF ~(BigLeq(Big(0), n) /\ BigLeq(n, MaxInput(k))) THEN Raised("ValueError")
    ELSE Returned(LowHighLoop(n, k, <<>>))

-----------------------------------------------------------------------------
(* Images (PIL).                                                           *)
(*                                                                         *)
(* An image is [w, h, mode, bg, ex, cw]: its size, its mode, the value bg  *)
(* of its pixels, the set ex of the pixels <<x, y>> that have the opposite *)
(* value 255 - bg, and the number cw of its columns, from the left, that   *)
(* hold such pixels: the columns from cw on are 0.  The pictures           *)
(* considered are black and white: every pixel is 0 (black) or 255         *)
(* (white), so that the conversion to mode "1" has nothing to dither.      *)

Pixel(i, x, y) ==
    IF x >= i.cw THEN 0
    ELSE IF <<x, y>> \in i.ex THEN 255 - i.bg ELSE i.bg

\* im.convert("L")
ConvertL(i) == [i EXCEPT !.mode = "L"]

\* ImageOps.invert(im): every pixel v becomes 255 - v
Invert(i) == [i EXCEPT !.bg = 255 - i.bg]

\* im.convert("1"): a pixel of 128 or more becomes 255, any other 0
Convert1(i) == [i EXCEPT !.mode = "1", !.bg = IF i.bg >= 128 THEN 255 ELSE 0]

\* im.transpose(Image.ROTATE_270): the pixel at (x, y) goes to (h - 1 - y, x)
Rotate270(i) ==
    [i EXCEPT !.w = i.h, !.h = i.w, !.cw = i.h,
              !.ex = { <<i.h - 1 - p[2], p[1]>> : p \in i.ex }]

\* Mutant: the image is rotated but not mirrored.
NoFlip(i) == i

\* im.transpose(Image.FLIP_LEFT_RIGHT): the pixel at (x, y) goes to (w - 1 - x, y)
FlipLeftRight(i) == [i EXCEPT !.ex = { <<i.w - 1 - p[1], p[2]>> : p \in i.ex }]

\* One bit of Image.tobytes() for mode "1": 1 for a pixel that is not 0, and
\* 0 for a pixel that is 0 or lies past the end of the row.
Bit(i, x, y) == IF x < i.w /\ Pixel(i, x, y) # 0 THEN 1 ELSE 0

\* Image.tobytes() of a mode "1" image: row after row, every row in
\* (w + 7) // 8 bytes, eight pixels to a byte, the leftmost in the top bit.
\* An image of width 0 or height 0 has no bytes.
ToBytes(i) ==
    LET stride == (i.w + 7) \div 8
    IN  [k \in 1 .. stride * i.h |->
            LET y == (k - 1) \div stride
                x == 8 * ((k - 1) % stride)
            IN  128 * Bit(i, x, y) + 64 * Bit(i, x + 1, y) + 32 * Bit(i, x + 2, y)
                + 16 * Bit(i, x + 3, y) + 8 * Bit(i, x + 4, y) + 4 * Bit(i, x + 5, y)
                + 2 * Bit(i, x + 6, y) + Bit(i, x + 7, y)]

\* im.transform(size, Image.EXTENT, box) for a box of the size of the result
\* that starts at the top of im and is as high as im, which is how
\* _to_column_format calls it: the pixel at (x, y) of the result is the pixel
\* of im at (box[1] + x, y), and 0 where that lies past the right edge of im.
Extent(i, size, box) ==
    LET inside == i.w - box[1]
    IN  [w |-> size[1], h |-> size[2], mode |-> i.mode, bg |-> i.bg,
         ex |-> { <<p[1] - box[1], p[2]>> :
                    p \in { q \in i.ex : q[1] >= box[1] /\ q[1] < box[3] } },
         cw |-> IF inside >= size[1] THEN size[1]
                ELSE IF inside <= 0 THEN 0 ELSE inside]

-----------------------------------------------------------------------------
(* Direct calls of _int_low_high *)

\* Byte counts tried: every legal one and some on either side.
ByteCounts == -1 .. 6

\* Numbers tried: small ones, and for every legal byte count k the
\* neighbourhood of 2^(8k), where k bytes stop being enough, and of
\* 2^(8k+7), the value the code computes as max_input.
EdgeNumbers ==
    UNION { { BigPred(BigPow2(8 * k)), BigPow2(8 * k), BigSucc(BigPow2(8 * k)),
              BigPow2(8 * k + 7), BigSucc(BigPow2(8 * k + 7)) }
            : k \in 1 .. 4 }

Numbers ==
    { Big(n) : n \in { -256, -1, 0, 1, 127, 255, 300, 4660, 65535, 65537,
                       1193046, 16777215, 305419896, 2147483647 } }
    \cup { [hi |-> 15, lo |-> Limb - 1], [hi |-> 11, lo |-> 12648430] }
    \cup EdgeNumbers

NoImage == [w |-> 0, h |-> 0, mode |-> "1", bg |-> 0, ex |-> {}, cw |-> 0]

InitEnc ==
    /\ inp_number \in Numbers
    /\ out_bytes \in ByteCounts
    /\ ret = Raised("pending")
    /\ pc = "call"
    /\ script = "none" /\ hdh = TRUE /\ hdv = TRUE
    /\ file = NoImage /\ im = NoImage
    /\ left = 0 /\ blobs = <<>> /\ header = <<>> /\ idx = 0
    /\ out = <<>> /\ err = "none"

Call ==
    /\ pc = "call"
    /\ ret' = IntLowHigh(inp_number, out_bytes)
    /\ pc' = "returned"
    /\ UNCHANGED <<script, hdh, hdv, file, im, left, blobs, header, idx, out, err,
                   inp_number, out_bytes>>

NextEnc == Call

SpecEnc == InitEnc /\ [][NextEnc]_vars

-----------------------------------------------------------------------------
(* The two scripts *)

ESC == <<27>>
GS == <<29>>

\* line_height = 3 if high_density_vertical else 1
LineHeight == IF hdv THEN 3 ELSE 1

\* Mutant: the line height is handed on as it is, not in dots.
StripWidthNoScale == LineHeight

\* The second argument the script gives _to_column_format: line_height * 8
StripWidth == LineHeight * 8

\* columnFormat.py: density_byte
ColumnDensityByte == (IF hdh THEN 1 ELSE 0) + (IF hdv THEN 32 ELSE 0)

\* rasterFormat.py: density_byte
RasterDensityByte == (IF hdv THEN 0 ELSE 1) + (IF hdh THEN 0 ELSE 2)

\* Mutant: the width in bytes is rounded down.
WidthBytesFloor(width) == width \div 8

\* rasterFormat.py: width_bytes = (int)((width + 7) / 8)
WidthBytes(width) == (width + 7) \div 8

\* rasterFormat.py: _to_raster_format(im)
ToRasterFormat(i) == ToBytes(Convert1(Invert(ConvertL(i))))

\* _to_column_format, one pass of the loop: box, slice and slice.tobytes()
SliceBytes(i, line_height, lft) ==
    LET box == <<lft, 0, lft + line_height, 0 + i.h>>
    IN  ToBytes(Extent(i, <<line_height, i.h>>, box))

Failed(e) ==
    /\ pc' = "failed"
    /\ err' = e

\* im = Image.open(filename).  Neither script looks at the size of the image
\* it gets, so a picture of width 0 or height 0 goes on like any other.
Load ==
    /\ pc = "load"
    /\ im' = file
    /\ pc' = IF script = "column" THEN "convert" ELSE "rasterheader"
    /\ UNCHANGED <<script, hdh, hdv, file, left, blobs, header, idx, out, err,
                   inp_number, out_bytes, ret>>

\* columnFormat.py: im.convert("L"), ImageOps.invert(im), im.convert("1")
Convert ==
    /\ pc = "convert"
    /\ im' = Convert1(Invert(ConvertL(im)))
    /\ pc' = "transpose"
    /\ UNCHANGED <<script, hdh, hdv, file, left, blobs, header, idx, out, err,
                   inp_number, out_bytes, ret>>

\* columnFormat.py: im.transpose(ROTATE_270).transpose(FLIP_LEFT_RIGHT), and
\* the entry of _to_column_format: top = 0, left = 0, blobs = []
Transpose ==
    /\ pc = "transpose"
    /\ im' = FlipLeftRight(Rotate270(im))
    /\ left' = 0
    /\ blobs' = <<>>
    /\ pc' = "slice"
    /\ UNCHANGED <<script, hdh, hdv, file, header, idx, out, err,
                   inp_number, out_bytes, ret>>

\* _to_column_format: one pass of "while left < width_pixels".  The
\* transform divides by the height of its result, so an image of height 0
\* ends the run with ZeroDivisionError.
SliceStep ==
    /\ pc = "slice"
    /\ left < im.w
    /\ IF im.h = 0
       THEN /\ Failed("ZeroDivisionError")
            /\ UNCHANGED <<left, blobs>>
       ELSE /\ blobs' = Append(blobs, SliceBytes(im, StripWidth, left))
            /\ left' = left + StripWidth
            /\ UNCHANGED <<pc, err>>
    /\ UNCHANGED <<script, hdh, hdv, file, im, header, idx, out,
                   inp_number, out_bytes, ret>>

\* _to_column_format: the loop ends and blobs is returned
SliceReturn ==
    /\ pc = "slice"
    /\ ~(left < im.w)
    /\ pc' = "columnheader"
    /\ UNCHANGED <<script, hdh, hdv, file, im, left, blobs, header, idx, out, err,
                   inp_number, out_bytes, ret>>

\* columnFormat.py: height_pixels, width_pixels = im.size and
\* header = ESC + b"*" + int2byte(density_byte) + _int_low_high(width_pixels, 2)
ColumnHeader ==
    /\ pc = "columnheader"
    /\ LET width_pixels == im.h
           field == IntLowHigh(Big(width_pixels), 2)
       IN  IF field.exc # "none"
           THEN /\ Failed(field.exc)
                /\ UNCHANGED header
           ELSE /\ header' = ESC \o <<42>> \o <<ColumnDensityByte>> \o field.bytes
                /\ pc' = "set"
                /\ UNCHANGED err
    /\ UNCHANGED <<script, hdh, hdv, file, im, left, blobs, idx, out,
                   inp_number, out_bytes, ret>>

\* columnFormat.py: fp.write(ESC + b"3" + int2byte(16))
WriteSet ==
    /\ pc = "set"
    /\ out' = out \o ESC \o <<51>> \o <<16>>
    /\ idx' = 0
    /\ pc' = "strips"
    /\ UNCHANGED <<script, hdh, hdv, file, im, left, blobs, header, err,
                   inp_number, out_bytes, ret>>

\* columnFormat.py: one pass of "for blob in blobs": fp.write(header + blob + b"\n")
WriteStrip ==
    /\ pc = "strips"
    /\ idx < Len(blobs)
    /\ out' = out \o header \o blobs[idx + 1] \o <<10>>
    /\ idx' = idx + 1
    /\ UNCHANGED <<script, hdh, hdv, file, im, left, blobs, header, err, pc,
                   inp_number, out_bytes, ret>>

\* columnFormat.py: fp.write(ESC + b"2")
WriteReset ==
    /\ pc = "strips"
    /\ idx = Len(blobs)
    /\ out' = out \o ESC \o <<50>>
    /\ pc' = "done"
    /\ UNCHANGED <<script, hdh, hdv, file, im, left, blobs, header, idx, err,
                   inp_number, out_bytes, ret>>

\* rasterFormat.py: width, height_pixels = im.size, width_bytes, density_byte and
\* header = GS + b"v0" + int2byte(density_byte) + _int_low_high(width_bytes, 2)
\*          + _int_low_high(height_pixels, 2)
RasterHeader ==
    /\ pc = "rasterheader"
    /\ LET width_field == IntLowHigh(Big(WidthBytes(im.w)), 2)
           height_field == IntLowHigh(Big(im.h), 2)
       IN  IF width_field.exc # "none"
           THEN /\ Failed(width_field.exc)
                /\ UNCHANGED header
           ELSE IF height_field.exc # "none"
           THEN /\ Failed(height_field.exc)
                /\ UNCHANGED header
           ELSE /\ header' = GS \o <<118, 48>> \o <<RasterDensityByte>>
                                \o width_field.bytes \o height_field.bytes
                /\ pc' = "rasterwrite"
                /\ UNCHANGED err
    /\ UNCHANGED <<script, hdh, hdv, file, im, left, blobs, idx, out,
                   inp_number, out_bytes, ret>>

\* rasterFormat.py: fp.write(header + _to_raster_format(im))
RasterWrite ==
    /\ pc = "rasterwrite"
    /\ out' = out \o header \o ToRasterFormat(im)
    /\ pc' = "done"
    /\ UNCHANGED <<script, hdh, hdv, file, im, left, blobs, header, idx, err,
                   inp_number, out_bytes, ret>>

Next ==
    \/ Load
    \/ Convert
    \/ Transpose
    \/ SliceStep
    \/ SliceReturn
    \/ ColumnHeader
    \/ WriteSet
    \/ WriteStrip
    \/ WriteReset
    \/ RasterHeader
    \/ RasterWrite

-----------------------------------------------------------------------------
(* The pictures *)

MaxRowBytes == 2
MaxStrips == 2

\* Widths that fill up to MaxRowBytes bytes of a raster row, exactly or with
\* one pixel over.
RasterWidths == {0} \cup { 8 * k + d : k \in 0 .. MaxRowBytes - 1, d \in {1, 8} }

\* Heights that fill up to MaxStrips strips of 8 or of 24 dots, exactly or
\* with one dot over.
ColumnHeights ==
    {0} \cup { 8 * k + d : k \in 0 .. MaxStrips - 1, d \in {1, 8} }
        \cup { 24 * k + d : k \in 0 .. MaxStrips - 1, d \in {1, 24} }

Sizes == (RasterWidths \X {0, 1, 2}) \cup ({0, 1, 2} \X ColumnHeights) \cup {<<16, 8>>}

\* The picture of size w x h in a file: background c, the pixels of e opposite.
Picture(w, h, c, e) == [w |-> w, h |-> h, mode |-> "1", bg |-> c, ex |-> e, cw |-> w]

\* A black picture, a white picture, or a white picture with one black pixel.
Pictures ==
    UNION { { Picture(sz[1], sz[2], 0, {}), Picture(sz[1], sz[2], 255, {}) }
            \cup { Picture(sz[1], sz[2], 255, {<<x, y>>})
                   : x \in 0 .. sz[1] - 1, y \in 0 .. sz[2] - 1 }
            : sz \in Sizes }

Start ==
    /\ pc = "load"
    /\ hdh \in BOOLEAN
    /\ hdv \in BOOLEAN
    /\ im = NoImage
    /\ left = 0 /\ blobs = <<>> /\ header = <<>> /\ idx = 0
    /\ out = <<>> /\ err = "none"
    /\ inp_number = Big(0) /\ out_bytes = 0 /\ ret = Raised("pending")

Init ==
    /\ script \in {"column", "raster"}
    /\ file \in Pictures
    /\ Start

Spec == Init /\ [][Next]_vars

\* Pictures with a side at the edge of what two bytes hold (65535), or one
\* past it, and one past the largest number _int_low_high takes for two bytes.
WideRuns ==
    { <<"column", Picture(n, 1, 255, {})>> : n \in {65535, 65536} }
    \cup { <<"column", Picture(8388609, 0, 255, {})>> }
    \cup { <<"raster", Picture(sz[1], sz[2], c, {})>>
           : sz \in { <<1, 65535>>, <<1, 65536>>, <<524280, 1>>, <<524281, 1>>,
                      <<1, 8388609>> }, c \in {0, 255} }

\* The wide pictures of the column script are run at line height 1, where a
\* blob has one byte for every column of the picture.
InitWide ==
    /\ \E run \in WideRuns : script = run[1] /\ file = run[2]
    /\ Start
    /\ script = "column" => ~hdv

\* Every picture above, small or wide.
SpecWide == (Init \/ InitWide) /\ [][Next]_vars

\* The interpreter runs the script to its end: a step that can be taken is taken.
FairSpec == Spec /\ WF_vars(Next)

-----------------------------------------------------------------------------
(* What the output should be, stated on the picture in the file *)

CeilDiv(a, b) == (a + b - 1) \div b

\* A dot is printed where the picture is black.
Ink(x, y) ==
    /\ 0 <= x /\ x < file.w
    /\ 0 <= y /\ y < file.h
    /\ Pixel(file, x, y) = 0

InkBit(x, y) == IF Ink(x, y) THEN 1 ELSE 0

DotsPerStrip == IF hdv THEN 24 ELSE 8
BytesPerColumn == IF hdv THEN 3 ELSE 1

\* Strip i (from 0) of the column format: for every column x of the picture,
\* left to right, the dots of rows i * DotsPerStrip onwards, top to bottom.
ExpectedStrip(i) ==
    [k \in 1 .. BytesPerColumn * file.w |->
        LET x == (k - 1) \div BytesPerColumn
            y == i * DotsPerStrip + 8 * ((k - 1) % BytesPerColumn)
        IN  128 * InkBit(x, y) + 64 * InkBit(x, y + 1) + 32 * InkBit(x, y + 2)
            + 16 * InkBit(x, y + 3) + 8 * InkBit(x, y + 4) + 4 * InkBit(x, y + 5)
            + 2 * InkBit(x, y + 6) + InkBit(x, y + 7)]

ExpectedStripCount == CeilDiv(file.h, DotsPerStrip)

\* The first n strips as written: header, strip, line feed.
RECURSIVE Frames(_)
Frames(n) ==
    IF n = 0 THEN <<>>
    ELSE Frames(n - 1) \o header \o ExpectedStrip(n - 1) \o <<10>>

\* The raster payload: row after row, eight dots to a byte.
ExpectedRaster ==
    LET stride == CeilDiv(file.w, 8)
    IN  [k \in 1 .. stride * file.h |->
            LET y == (k - 1) \div stride
                x == 8 * ((k - 1) % stride)
            IN  128 * InkBit(x, y) + 64 * InkBit(x + 1, y) + 32 * InkBit(x + 2, y)
                + 16 * InkBit(x + 3, y) + 8 * InkBit(x + 4, y) + 4 * InkBit(x + 5, y)
                + 2 * InkBit(x + 6, y) + InkBit(x + 7, y)]

Scenario == Picture(16, 8, 0, {})

-----------------------------------------------------------------------------
(* _int_low_high, called directly (SpecEnc) *)

Fits(n, k) == BigLeq(Big(0), n) /\ BigLess(n, BigPow2(8 * k))

\* C1: for a byte count of 1 to 4 and a number that fits in that many bytes,
\* _int_low_high returns exactly that many bytes, each 0..255, and reading
\* them least significant byte first gives the number back.
LowHighRoundTrip ==
    (pc = "returned" /\ out_bytes \in 1 .. 4 /\ Fits(inp_number, out_bytes))
    => /\ ret.exc = "none"
       /\ Len(ret.bytes) = out_bytes
       /\ \A i \in 1 .. Len(ret.bytes) : ret.bytes[i] \in 0 .. 255
       /\ DecodeLE(ret.bytes) = inp_number

LowHighRoundTripSeen ==
    /\ pc = "returned"
    /\ out_bytes = 4
    /\ inp_number = Big(305419896)
    /\ ret = Returned(<<120, 86, 52, 18>>)

\* C2: for a byte count of 1 to 4, a number that does not fit in that many
\* bytes (2^(8 * count) or more, or negative) is refused with ValueError and
\* no bytes are returned.
TooLargeRefused ==
    (pc = "returned" /\ out_bytes \in 1 .. 4 /\ ~Fits(inp_number, out_bytes))
    => ret = Raised("ValueError")

\* C9: for a byte count outside 1..4, whatever the number, the call ends in
\* ValueError and returns no bytes.
BadCountRefused ==
    (pc = "returned" /\ out_bytes \notin 1 .. 4) => ret = Raised("ValueError")

BadCountRefusedSeen ==
    /\ pc = "returned"
    /\ out_bytes = 5
    /\ inp_number = Big(1)
    /\ ret = Raised("ValueError")

-----------------------------------------------------------------------------
(* The raster script *)

RasterLayout ==
    LET stride == CeilDiv(file.w, 8)
    IN  /\ Len(out) = 8 + stride * file.h
        /\ SubSeq(out, 1, 3) = <<29, 118, 48>>
        /\ out[4] = (IF hdv THEN 0 ELSE 1) + (IF hdh THEN 0 ELSE 2)
        /\ DecodeLE(SubSeq(out, 5, 6)) = Big(stride)
        /\ DecodeLE(SubSeq(out, 7, 8)) = Big(file.h)
        /\ SubSeq(out, 9, Len(out)) = ExpectedRaster

OneRasterCommand ==
    \/ pc \in {"load", "rasterheader", "rasterwrite"} /\ out = <<>>
    \/ pc = "done" /\ RasterLayout

\* C5 as stated: for every picture the raster script writes one command,
\* 0x1D 'v' '0', the flag byte, ceil(w / 8) and h in two little-endian bytes
\* each, and a payload of ceil(w / 8) * h bytes.
RasterCommandAnySize == script = "raster" => OneRasterCommand

\* C5 as amended: the same for every picture whose ceil(w / 8) and h are at
\* most 65535.
RasterCommand ==
    (script = "raster" /\ CeilDiv(file.w, 8) <= 65535 /\ file.h <= 65535)
    => OneRasterCommand

RasterScenarioSeen ==
    /\ script = "raster" /\ file = Scenario /\ hdh /\ hdv
    /\ pc = "done"
    /\ out = <<29, 118, 48, 0, 2, 0, 8, 0>> \o [k \in 1 .. 16 |-> 255]

-----------------------------------------------------------------------------
(* The column script *)

SetSpacing == <<27, 51, 16>>
ResetSpacing == <<27, 50>>

\* C4: the column script writes the set-line-spacing command once, first;
\* then for every strip in order its header, its payload and one 0x0A; then
\* the reset-line-spacing command once, last; and nothing else.  At every
\* moment the bytes written are a beginning of that stream.
ColumnStream ==
    script = "column" =>
        IF pc = "strips"
        THEN /\ idx <= ExpectedStripCount
             /\ Len(header) = 5
             /\ out = SetSpacing \o Frames(idx)
        ELSE IF pc = "done"
        THEN /\ Len(header) = 5
             /\ out = SetSpacing \o Frames(ExpectedStripCount) \o ResetSpacing
        ELSE out = <<>>

ColumnStreamSeen ==
    /\ script = "column" /\ pc = "done"
    /\ ExpectedStripCount = 2
    /\ file.ex = {<<0, DotsPerStrip>>}
    /\ Len(out) = 5 + 2 * (6 + BytesPerColumn * file.w)

\* Where strip k (from 0) starts in the output, counted from 0.
FrameStart(k) == 3 + k * (6 + BytesPerColumn * file.w)

\* C6: every strip written starts with 0x1B '*', the flag byte
\* (1 if high_density_horizontal) + (32 if high_density_vertical) and the
\* width of the picture in two little-endian bytes.
StripHeaders ==
    (script = "column" /\ pc \in {"strips", "done"})
    => \A k \in 0 .. idx - 1 :
          /\ SubSeq(out, FrameStart(k) + 1, FrameStart(k) + 3)
                = <<27, 42, (IF hdh THEN 1 ELSE 0) + (IF hdv THEN 32 ELSE 0)>>
          /\ DecodeLE(SubSeq(out, FrameStart(k) + 4, FrameStart(k) + 5)) = Big(file.w)

\* How many of the eight dots of byte j (from 0) of a row of blob i (from 1)
\* lie inside the rotated bitmap.
DotsInside(i, j) ==
    LET first == (i - 1) * DotsPerStrip + 8 * j
    IN  IF im.w - first >= 8 THEN 8 ELSE IF im.w - first <= 0 THEN 0 ELSE im.w - first

\* PadModulus[d + 1] divides a byte exactly when its last 8 - d bits are 0.
PadModulus == <<256, 128, 64, 32, 16, 8, 4, 2, 1>>

\* C7: every blob of _to_column_format has lineHeight * (height of the rotated
\* bitmap) bytes, which is lineHeight times the width declared in the strip
\* header, and in it every dot past the right edge of the rotated bitmap is 0.
StripBlobs ==
    (script = "column" /\ pc \in {"slice", "columnheader", "set", "strips", "done"})
    => \A i \in 1 .. Len(blobs) :
          /\ Len(blobs[i]) = BytesPerColumn * im.h
          /\ header # <<>> =>
                /\ DecodeLE(SubSeq(header, 4, 5)).hi = 0
                /\ Len(blobs[i]) = BytesPerColumn * DecodeLE(SubSeq(header, 4, 5)).lo
          /\ \A k \in 1 .. Len(blobs[i]) :
                blobs[i][k] % PadModulus[DotsInside(i, (k - 1) % BytesPerColumn) + 1] = 0

\* C3: every two-byte length written is the true dimension, and a picture
\* with a dimension over 65535 ends the run in an error with nothing written.
LengthFields ==
    /\ (script = "raster" /\ out # <<>>)
       => /\ DecodeLE(SubSeq(out, 5, 6)) = Big(CeilDiv(file.w, 8))
          /\ DecodeLE(SubSeq(out, 7, 8)) = Big(file.h)
    /\ (script = "column" /\ pc \in {"strips", "done"})
       => \A k \in 0 .. idx - 1 :
             DecodeLE(SubSeq(out, FrameStart(k) + 4, FrameStart(k) + 5)) = Big(file.w)
    /\ (script = "raster" /\ (CeilDiv(file.w, 8) > 65535 \/ file.h > 65535))
       => out = <<>> /\ pc # "done"
    /\ (script = "column" /\ file.w > 65535)
       => out = <<>> /\ pc # "done"

\* C8: a picture of width 0 or height 0 ends the run in an error, and no
\* byte is written for it.
ZeroSizeRefused ==
    (script \in {"column", "raster"} /\ (file.w = 0 \/ file.h = 0))
    => out = <<>> /\ pc # "done"

-----------------------------------------------------------------------------
(* The slicing loop *)

====
